---- MODULE Spec2Model ----
(***************************************************************************)
(* A model of small-shell.c: the parser, the executor (run), the reaper    *)
(* (check_background), the SIGTSTP handler and the main loop, together     *)
(* with the child processes the shell forks.                               *)
(*                                                                         *)
(* Strings are sequences of one-character strings; a NULL char* is the     *)
(* empty sequence (the parser never produces an empty token).              *)
(***************************************************************************)
EXTENDS Integers, Sequences, FiniteSets, TLC

\* ------------------------------------------------------------------ bounds
MaxLen == 5        \* longest raw input line enumerated by ParseSpec
MaxChildren == 2   \* number of successful forks explored
MaxSigtstp == 2    \* number of SIGTSTP deliveries explored

\* --------------------------------------------------------------- constants
ShellPid == 42     \* the value getpid() returns in the shell
SIGINT == 2
SIGKILL == 9

NULL == <<>>
DEV_NULL == <<"/", "d", "e", "v", "/", "n", "u", "l", "l">>
Alphabet == {"a", " ", "\n", "&", "<", ">", "#", "$"}
Delim == {" ", "\n"}

\* ------------------------------------------------------------- C library
Digit(d) == CASE d = 0 -> "0" [] d = 1 -> "1" [] d = 2 -> "2" [] d = 3 -> "3"
              [] d = 4 -> "4" [] d = 5 -> "5" [] d = 6 -> "6" [] d = 7 -> "7"
              [] d = 8 -> "8" [] d = 9 -> "9"

RECURSIVE Decimal(_)
\* sprintf(buffer, "%ld", n) for n >= 0
Decimal(n) == IF n < 10 THEN <<Digit(n)>>
              ELSE Decimal(n \div 10) \o <<Digit(n % 10)>>

RECURSIVE SkipDelims(_)
SkipDelims(s) == IF s # <<>> /\ Head(s) \in Delim THEN SkipDelims(Tail(s)) ELSE s

RECURSIVE TokenLen(_)
TokenLen(s) == IF s = <<>> \/ Head(s) \in Delim THEN 0 ELSE 1 + TokenLen(Tail(s))

RECURSIVE strtok_all(_)
\* the tokens successive strtok_r(NULL, " \n", &s) calls return
strtok_all(s) ==
    LET t == SkipDelims(s)
        n == TokenLen(t)
    IN  IF t = <<>> THEN <<>>
        ELSE <<SubSeq(t, 1, n)>> \o strtok_all(SubSeq(t, n + 1, Len(t)))

\* ----------------------------------------------------------------- parser
create_command == [args |-> <<>>, input_file |-> NULL,
                   output_file |-> NULL, background |-> 0]

RECURSIVE expand_no_skip(_, _)
expand_no_skip(input, i) ==
    IF i > Len(input) THEN <<>>
    ELSE IF input[i] = "$" /\ i < Len(input) /\ input[i + 1] = "$"
         THEN Decimal(ShellPid) \o expand_no_skip(input, i + 1)
         ELSE <<input[i]>> \o expand_no_skip(input, i + 1)

RECURSIVE expand(_, _)
\* the `$$` loop of parse, from index i (1-based) of the raw line
expand(input, i) ==
    IF i > Len(input) THEN <<>>
    ELSE IF input[i] = "$" /\ i < Len(input) /\ input[i + 1] = "$"
         THEN Decimal(ShellPid) \o expand(input, i + 2)
         ELSE <<input[i]>> \o expand(input, i + 1)

\* the test on the second to last character of the expanded line
is_background(expanded_input) ==
    /\ Len(expanded_input) - 2 >= 0
    /\ expanded_input[Len(expanded_input) - 1] = "&"

\* expanded_input[i] = ' '
blank_marker(expanded_input) ==
    IF is_background(expanded_input)
    THEN [expanded_input EXCEPT ![Len(expanded_input) - 1] = " "]
    ELSE expanded_input

parse_token_no_output_operator(c, token) ==
    IF token = <<"<">> THEN [c EXCEPT !.mode = 1]
    ELSE IF c.mode = 0 THEN [c EXCEPT !.args = Append(c.args, token)]
    ELSE IF c.mode = 1 THEN [c EXCEPT !.input_file = token]
    ELSE [c EXCEPT !.output_file = token]

\* one iteration of the token loop; c carries the command and the mode
parse_token(c, token) ==
    IF token = <<"<">> THEN [c EXCEPT !.mode = 1]
    ELSE IF token = <<">">> THEN [c EXCEPT !.mode = 2]
    ELSE IF c.mode = 0 THEN [c EXCEPT !.args = Append(c.args, token)]
    ELSE IF c.mode = 1 THEN [c EXCEPT !.input_file = token]
    ELSE [c EXCEPT !.output_file = token]

RECURSIVE parse_tokens(_, _)
parse_tokens(c, tokens) ==
    IF tokens = <<>> THEN c
    ELSE parse_tokens(parse_token(c, Head(tokens)), Tail(tokens))

\* parse(input), reading the global `background` as flag
parse(input, flag) ==
    IF Len(input) >= 1 /\ input[1] = "#" THEN create_command
    ELSE LET expanded_input == expand(input, 1)
             c0 == [args |-> <<>>, input_file |-> NULL, output_file |-> NULL,
                    background |-> IF is_background(expanded_input) THEN flag ELSE 0,
                    mode |-> 0]
             c == parse_tokens(c0, strtok_all(blank_marker(expanded_input)))
         IN  [args |-> c.args, input_file |-> c.input_file,
              output_file |-> c.output_file, background |-> c.background]

\* ------------------------------------------------------- status encoding
\* the wait status of a child that called exit(code) / was killed by sig
W_EXITCODE(code) == code * 256
W_SIGNALED(sig) == sig
WIFEXITED(s) == s % 128 = 0
WEXITSTATUS(s) == (s \div 256) % 256
WTERMSIG(s) == s % 128
WIFSIGNALED(s) == s % 128 # 0 /\ s % 128 # 127

\* the line print_status writes
print_status(s) ==
    IF WIFEXITED(s) THEN <<"exit value", WEXITSTATUS(s)>>
    ELSE <<"terminated by signal", WTERMSIG(s)>>

handle_sigtstp_stuck(flag) ==
    [background |-> 0,
     banner |-> <<"banner", "Entering foreground-only mode (& is now ignored)">>]

\* ------------------------------------------------------- signal handler
\* handle_sigtstp: the new value of `background` and the banner written
handle_sigtstp(flag) ==
    LET b == IF flag = 0 THEN 1 ELSE 0
    IN  [background |-> b,
         banner |-> IF b # 0 THEN <<"banner", "Exiting foreground-only mode">>
                    ELSE <<"banner", "Entering foreground-only mode (& is now ignored)">>]

\* --------------------------------------------------- background registry
\* the linked list is the sequence of its pids, head first
insert_pid_unlinked(list, pid) == <<pid>>

insert_pid(list, pid) == <<pid>> \o list

free_background_pids_head_only(list) == IF list = <<>> THEN <<>> ELSE <<Head(list)>>

RECURSIVE free_background_pids(_)
\* the pids kill(pid, SIGKILL) is called on, in call order
free_background_pids(list) ==
    IF list = <<>> THEN <<>>
    ELSE free_background_pids(Tail(list)) \o <<Head(list)>>

RemoveAt(list, i) == SubSeq(list, 1, i - 1) \o SubSeq(list, i + 1, Len(list))

RECURSIVE sweep(_, _, _, _, _)
\* the while loop of check_background.  cur and previous are positions in
\* list (cur > Len(list) and previous = 0 stand for NULL); dead is the set
\* of pids for which waitpid(pid, &status, WNOHANG) returns non-zero.
sweep(list, cur, previous, dead, reported) ==
    IF cur > Len(list) THEN [head |-> list, reported |-> reported]
    ELSE IF list[cur] \in dead
         THEN IF previous # 0
              THEN \* previous->next = cur->next; cur = previous;
                   \* previous = cur; cur = cur->next
                   sweep(RemoveAt(list, cur), previous + 1, previous, dead,
                         Append(reported, list[cur]))
              ELSE \* head = cur->next; cur = head; previous = cur;
                   \* if (cur) cur = cur->next
                   sweep(Tail(list), 2, IF Tail(list) = <<>> THEN 0 ELSE 1, dead,
                         Append(reported, list[cur]))
         ELSE sweep(list, cur + 1, cur, dead, reported)

check_background(list, dead) == sweep(list, 1, 0, dead, <<>>)

status_after_sweep_shared(st, waited) ==
    IF waited = <<>> THEN st ELSE waited[Len(waited)]

\* main's status after check_background: the sweep stores the wait statuses
\* (waited) in a local of its own, so main's status st is not written
status_after_sweep(st, waited) == st

\* ------------------------------------------------------------- redirect
\* redirect(file_name, flag, error, status) in a child whose copy of the
\* status cell holds st; outcome is what open and dup2 do
redirect(file_name, outcome, st) ==
    IF outcome = "open_fail" THEN [ret |-> 1, status |-> 1]
    ELSE IF outcome = "dup_fail" THEN [ret |-> 1, status |-> st]
    ELSE [ret |-> 0, status |-> st]

\* ------------------------------------------------------------ processes
\* a pid no process has had yet
NoChild == [st |-> "none", bg |-> 0, command |-> create_command,
            sigint |-> "SIG_IGN", sigtstp |-> "handle_sigtstp",
            stdin |-> <<"tty">>, stdout |-> <<"tty">>, status |-> 0, wstatus |-> 0]

\* a process ends: the kernel keeps its wait status, its memory, signal
\* dispositions and descriptors are gone (bg records how it was forked)
terminate(c, w) == [NoChild EXCEPT !.st = "zombie", !.bg = c.bg, !.wstatus = w]

\* a wait call collects the process
reap(c) == [NoChild EXCEPT !.st = "reaped", !.bg = c.bg]

\* the child's disposition of SIGINT before execvp: restored to the default
\* for a foreground command, left as inherited for a background command
child_sigint_always_default(c) == "SIG_DFL"

child_sigint(c) == IF c.command.background # 0 THEN c.sigint ELSE "SIG_DFL"

child_files_no_default(c) == c.command

\* the child's command after the defaults for a background command: a side
\* without a file is redirected to DEV_NULL
child_files(c) ==
    IF c.command.background # 0
    THEN [c.command EXCEPT
            !.input_file = IF @ = NULL THEN DEV_NULL ELSE @,
            !.output_file = IF @ = NULL THEN DEV_NULL ELSE @]
    ELSE c.command

\* the child's branch of run, from fork to execvp or exit(1)
child_branch(c, in_outcome, out_outcome, exec_ok) ==
    LET cmd == child_files(c)
        c1 == [c EXCEPT !.sigtstp = "SIG_IGN",
                        !.sigint = child_sigint(c),
                        !.command = cmd]
        rin == redirect(cmd.input_file, in_outcome, c1.status)
        c2 == IF cmd.input_file # NULL
              THEN [c1 EXCEPT !.status = rin.status,
                              !.stdin = IF rin.ret = 0 THEN cmd.input_file ELSE @]
              ELSE c1
        rout == redirect(cmd.output_file, out_outcome, c2.status)
        c3 == IF cmd.output_file # NULL
              THEN [c2 EXCEPT !.status = rout.status,
                              !.stdout = IF rout.ret = 0 THEN cmd.output_file ELSE @]
              ELSE c2
    IN  IF cmd.input_file # NULL /\ rin.ret # 0
        THEN terminate(c2, W_EXITCODE(1))
        ELSE IF cmd.output_file # NULL /\ rout.ret # 0
        THEN terminate(c3, W_EXITCODE(1))
        ELSE IF exec_ok THEN [c3 EXCEPT !.st = "running"]
        ELSE terminate(c3, W_EXITCODE(1))

\* ------------------------------------------------------------ the inputs
Str_exit == <<"e", "x", "i", "t">>
Str_cd == <<"c", "d">>
Str_status == <<"s", "t", "a", "t", "u", "s">>

Lines == UNION {[1..n -> Alphabet] : n \in 0..MaxLen}

\* the lines the shell model reads from stdin (<<>> is end-of-file or a
\* failed read)
ShellLines == {<<"a", "\n">>, <<"a", " ", "&", "\n">>,
               <<"a", " ", "<", " ", "a", "\n">>,
               Str_exit \o <<"\n">>, Str_status \o <<"\n">>,
               Str_cd \o <<"\n">>, <<>>, <<" ", "\n">>, <<"#", "a", "\n">>,
               <<"a", " ", ">", " ", "a", " ", "&", "\n">>}

ExitCodes == {0, 1}
\* the signals sent to a child from outside the shell (SIGTERM)
OtherSignals == {15}
Pids == 1..MaxChildren
Outcomes == {"ok", "open_fail", "dup_fail"}

\* ---------------------------------------------------------------- state
VARIABLES
    pc,               \* where the shell's main control flow is
    input,            \* the line in main's input buffer
    command,          \* the command parse returned
    background,       \* the global `background` (0 = foreground-only mode)
    sigtstp_blocked,  \* SIGTSTP is in the shell's signal mask
    sigtstp_pending,  \* a SIGTSTP arrived while blocked
    sigint_shell,     \* the shell's disposition of SIGINT
    status,           \* main's status (Last Status)
    background_pids,  \* main's linked list of background pids
    children,         \* the processes forked so far, by pid
    child_pid,        \* run's child_pid while a foreground child is waited for
    exit_code,        \* the shell's exit code, -1 while it runs
    killed,           \* the pids sent SIGKILL by the shell
    out,              \* the lines written to stdout about children
    banners,          \* the banners the shell's handle_sigtstp wrote to stdout
    n_sigtstp,        \* SIGTSTP signals sent to the shell so far
    parser            \* the locals of a parse that is under way (ArgsSpec)

vars == <<pc, input, command, background, sigtstp_blocked, sigtstp_pending,
          sigint_shell, status, background_pids, children, child_pid,
          exit_code, killed, out, banners, n_sigtstp, parser>>

Forked == {p \in Pids : children[p].st # "none"}
Alive == {p \in Pids : children[p].st \in {"forked", "running"}}
Terminated == {p \in Pids : children[p].st = "zombie"}
ToSet(s) == {s[i] : i \in DOMAIN s}

\* no parse is under way
NoParser == [at |-> "idle", i |-> 0, expanded_input |-> <<>>, pos |-> 0, mode |-> 0]

\* the state main reaches before its loop, apart from pc, input, background
InitRest ==
    /\ command = create_command
    /\ sigtstp_blocked = FALSE
    /\ sigtstp_pending = FALSE
    /\ sigint_shell = "SIG_IGN"
    /\ status = 0
    /\ background_pids = <<>>
    /\ children = [p \in Pids |-> NoChild]
    /\ child_pid = 0
    /\ exit_code = -1
    /\ killed = <<>>
    /\ banners = <<>>
    /\ out = <<>>
    /\ n_sigtstp = 0
    /\ parser = NoParser

Init == pc = "reap" /\ input = <<>> /\ background = 1 /\ InitRest

\* ------------------------------------------------------------ main loop
\* check_background and the prompt; then memset(input) and the shell is in fgets
main_reap ==
    /\ pc = "reap"
    /\ LET r == check_background(background_pids, Terminated)
       IN  /\ background_pids' = r.head
           /\ status' = status_after_sweep(status,
                  [i \in DOMAIN r.reported |-> children[r.reported[i]].wstatus])
           /\ out' = out \o [i \in DOMAIN r.reported |->
                              <<"done", r.reported[i],
                                print_status(children[r.reported[i]].wstatus)>>]
           /\ children' = [p \in Pids |->
                            IF p \in ToSet(r.reported)
                            THEN reap(children[p])
                            ELSE children[p]]
    /\ pc' = "read"
    /\ UNCHANGED <<input, command, background, sigtstp_blocked,
                   sigtstp_pending, sigint_shell, child_pid, exit_code,
                   killed, banners, n_sigtstp, parser>>

\* fgets returns a line, or fails at end-of-file and leaves input zeroed
main_read ==
    /\ pc = "read"
    /\ input' \in ShellLines
    /\ pc' = "parse"
    /\ UNCHANGED <<command, background, sigtstp_blocked, sigtstp_pending,
                   sigint_shell, status, background_pids, children,
                   child_pid, exit_code, killed, out, banners, n_sigtstp,
                   parser>>

main_parse ==
    /\ pc = "parse"
    /\ command' = parse(input, background)
    /\ pc' = "run"
    /\ UNCHANGED <<input, background, sigtstp_blocked, sigtstp_pending,
                   sigint_shell, status, background_pids, children,
                   child_pid, exit_code, killed, out, banners, n_sigtstp,
                   parser>>

\* ------------------------------------------------------------------ run
IsExternal(c) == c.args # <<>> /\ c.args[1] \notin {Str_exit, Str_cd, Str_status}

Continue_stops ==
    /\ pc' = "exited"
    /\ command' = create_command
    /\ input' = <<>>

\* run returned 1: free_command and the next iteration.  The input buffer
\* is not read again before memset clears it, so it is cleared here.
Continue ==
    /\ pc' = "reap"
    /\ command' = create_command
    /\ input' = <<>>

run_empty ==
    /\ pc = "run" /\ command.args = <<>>
    /\ Continue
    /\ UNCHANGED <<background, sigtstp_blocked, sigtstp_pending,
                   sigint_shell, status, background_pids, children,
                   child_pid, exit_code, killed, out, banners, n_sigtstp,
                   parser>>

\* `exit`: run returns 0, the loop ends, free_background_pids, return 0
run_exit ==
    /\ pc = "run" /\ command.args # <<>> /\ command.args[1] = Str_exit
    /\ pc' = "exited"
    /\ command' = create_command
    /\ input' = <<>>
    /\ killed' = free_background_pids(background_pids)
    /\ background_pids' = <<>>
    /\ children' = [p \in Pids |->
                     IF p \in ToSet(killed') /\ p \in Alive
                     THEN terminate(children[p], W_SIGNALED(SIGKILL))
                     ELSE children[p]]
    /\ exit_code' = 0
    /\ UNCHANGED <<background, sigtstp_blocked, sigtstp_pending,
                   sigint_shell, status, child_pid, out, banners, n_sigtstp,
                   parser>>

\* `cd`: chdir to args[1] or to $HOME, a failure is silent; the working
\* directory is the only state it touches and is not part of the model
run_cd ==
    /\ pc = "run" /\ command.args # <<>> /\ command.args[1] = Str_cd
    /\ Continue
    /\ UNCHANGED <<background, sigtstp_blocked, sigtstp_pending,
                   sigint_shell, status, background_pids, children,
                   child_pid, exit_code, killed, out, banners, n_sigtstp,
                   parser>>

\* `status`: print_status(*status)
run_status ==
    /\ pc = "run" /\ command.args # <<>> /\ command.args[1] = Str_status
    /\ Continue
    /\ UNCHANGED <<background, sigtstp_blocked, sigtstp_pending,
                   sigint_shell, status, background_pids, children,
                   child_pid, exit_code, killed, out, banners, n_sigtstp,
                   parser>>

\* fork returned -1
run_fork_fail ==
    /\ pc = "run" /\ IsExternal(command)
    /\ Continue
    /\ UNCHANGED <<background, sigtstp_blocked, sigtstp_pending,
                   sigint_shell, status, background_pids, children,
                   child_pid, exit_code, killed, out, banners, n_sigtstp,
                   parser>>

\* the process fork creates: a copy of the shell's memory and dispositions
NewChild == [st |-> "forked", bg |-> command.background,
             command |-> command, sigint |-> sigint_shell,
             sigtstp |-> "handle_sigtstp", stdin |-> <<"tty">>,
             stdout |-> <<"tty">>, status |-> status, wstatus |-> 0]

\* fork succeeded, parent, command->background: insert_pid and the message
run_fork_background ==
    /\ pc = "run" /\ IsExternal(command) /\ command.background # 0
    /\ \E p \in Pids :
         /\ children[p].st = "none"
         /\ \A q \in Pids : q < p => children[q].st # "none"
         /\ children' = [children EXCEPT ![p] = NewChild]
         /\ background_pids' = insert_pid(background_pids, p)
         /\ out' = Append(out, <<"background pid is", p>>)
    /\ Continue
    /\ UNCHANGED <<background, sigtstp_blocked, sigtstp_pending,
                   sigint_shell, status, child_pid, exit_code, killed,
                   banners, n_sigtstp, parser>>

\* fork succeeded, parent, foreground: up to the call of sigprocmask
run_fork_foreground ==
    /\ pc = "run" /\ IsExternal(command) /\ command.background = 0
    /\ \E p \in Pids :
         /\ children[p].st = "none"
         /\ \A q \in Pids : q < p => children[q].st # "none"
         /\ children' = [children EXCEPT ![p] = NewChild]
         /\ child_pid' = p
    /\ pc' = "forked"
    /\ UNCHANGED <<input, command, background, sigtstp_blocked,
                   sigtstp_pending, sigint_shell, status, background_pids,
                   exit_code, killed, out, banners, n_sigtstp, parser>>

run_block_no_mask ==
    /\ pc = "forked"
    /\ pc' = "wait"
    /\ UNCHANGED <<input, command, background, sigtstp_blocked, sigtstp_pending,
                   sigint_shell, status, background_pids, children, child_pid,
                   exit_code, killed, out, banners, n_sigtstp, parser>>

\* sigprocmask(SIG_BLOCK, &sigtstp, NULL), then the shell is in waitpid
run_block ==
    /\ pc = "forked"
    /\ sigtstp_blocked' = TRUE
    /\ pc' = "wait"
    /\ UNCHANGED <<input, command, background, sigtstp_pending, sigint_shell,
                   status, background_pids, children, child_pid, exit_code,
                   killed, out, banners, n_sigtstp, parser>>

\* waitpid(child_pid, status, 0) returns; print_status if WIFSIGNALED
run_wait ==
    /\ pc = "wait"
    /\ children[child_pid].st = "zombie"
    /\ status' = children[child_pid].wstatus
    /\ children' = [children EXCEPT ![child_pid] = reap(@)]
    /\ out' = IF WIFSIGNALED(status') THEN Append(out, print_status(status'))
              ELSE out
    /\ pc' = "unblock"
    /\ UNCHANGED <<input, command, background, sigtstp_blocked,
                   sigtstp_pending, sigint_shell, background_pids, child_pid,
                   exit_code, killed, banners, n_sigtstp, parser>>

run_unblock_drops_pending ==
    /\ pc = "unblock"
    /\ sigtstp_blocked' = FALSE
    /\ sigtstp_pending' = FALSE
    /\ child_pid' = 0
    /\ pc' = "reap"
    /\ command' = create_command
    /\ input' = <<>>
    /\ UNCHANGED <<background, banners, sigint_shell, status, background_pids,
                   children, exit_code, killed, out, n_sigtstp, parser>>

\* sigprocmask(SIG_UNBLOCK, &sigtstp, NULL): a pending SIGTSTP is delivered
\* before the call returns; then run returns 1
run_unblock ==
    /\ pc = "unblock"
    /\ sigtstp_blocked' = FALSE
    /\ sigtstp_pending' = FALSE
    /\ IF sigtstp_pending
       THEN /\ background' = handle_sigtstp(background).background
            /\ banners' = Append(banners, handle_sigtstp(background).banner)
       ELSE UNCHANGED <<background, banners>>
    /\ child_pid' = 0
    /\ Continue
    /\ UNCHANGED <<sigint_shell, status, background_pids, children,
                   exit_code, killed, out, n_sigtstp, parser>>

\* -------------------------------------------------------------- signals
\* a SIGTSTP is sent to the shell: held pending while blocked, otherwise
\* handle_sigtstp runs; a handler run interrupts the read behind fgets
\* (sa_flags has no SA_RESTART), which then fails and leaves input zeroed
sigtstp ==
    /\ pc # "exited"
    /\ n_sigtstp < MaxSigtstp
    /\ n_sigtstp' = n_sigtstp + 1
    /\ IF sigtstp_blocked
       THEN /\ sigtstp_pending' = TRUE
            /\ UNCHANGED <<background, banners, pc>>
       ELSE /\ background' = handle_sigtstp(background).background
            /\ banners' = Append(banners, handle_sigtstp(background).banner)
            /\ pc' = IF pc = "read" THEN "parse" ELSE pc
            /\ UNCHANGED sigtstp_pending
    /\ UNCHANGED <<input, command, sigtstp_blocked, sigint_shell, status,
                   background_pids, children, child_pid, exit_code, killed,
                   out, parser>>

\* a SIGINT from the terminal reaches the shell and every child: it ends
\* the processes whose disposition is the default action
sigint ==
    /\ \E p \in Alive : children[p].sigint = "SIG_DFL"
    /\ children' = [p \in Pids |->
                     IF p \in Alive /\ children[p].sigint = "SIG_DFL"
                     THEN terminate(children[p], W_SIGNALED(SIGINT))
                     ELSE children[p]]
    /\ pc' = IF sigint_shell = "SIG_DFL" THEN "exited" ELSE pc
    /\ UNCHANGED <<input, command, background, sigtstp_blocked,
                   sigtstp_pending, sigint_shell, status, background_pids,
                   child_pid, exit_code, killed, out, banners, n_sigtstp,
                   parser>>

\* ------------------------------------------------------------- children
\* what open and dup2 can do for a side: redirect is called only for a
\* side that has a file
redirect_outcomes(file_name) == IF file_name = NULL THEN {"ok"} ELSE Outcomes

\* the child runs from fork to execvp or exit(1)
child_setup ==
    \E p \in Pids :
        /\ children[p].st = "forked"
        /\ \E i \in redirect_outcomes(child_files(children[p]).input_file),
              o \in redirect_outcomes(child_files(children[p]).output_file),
              e \in BOOLEAN :
               children' = [children EXCEPT
                              ![p] = child_branch(children[p], i, o, e)]
        /\ UNCHANGED <<pc, input, command, background, sigtstp_blocked,
                       sigtstp_pending, sigint_shell, status,
                       background_pids, child_pid, exit_code, killed, out,
                       banners, n_sigtstp, parser>>

\* the executed program ends with an exit code
child_exit ==
    \E p \in Pids, code \in ExitCodes :
        /\ children[p].st = "running"
        /\ children' = [children EXCEPT ![p] = terminate(@, W_EXITCODE(code))]
        /\ UNCHANGED <<pc, input, command, background, sigtstp_blocked,
                       sigtstp_pending, sigint_shell, status,
                       background_pids, child_pid, exit_code, killed, out,
                       banners, n_sigtstp, parser>>

\* the executed program is ended by a signal sent from outside the shell
child_killed ==
    \E p \in Pids, sig \in OtherSignals :
        /\ children[p].st = "running"
        /\ children' = [children EXCEPT ![p] = terminate(@, W_SIGNALED(sig))]
        /\ UNCHANGED <<pc, input, command, background, sigtstp_blocked,
                       sigtstp_pending, sigint_shell, status,
                       background_pids, child_pid, exit_code, killed, out,
                       banners, n_sigtstp, parser>>

Next ==
    \/ main_reap \/ main_read \/ main_parse
    \/ run_empty \/ run_exit \/ run_cd \/ run_status
    \/ run_fork_fail \/ run_fork_background \/ run_fork_foreground
    \/ run_block \/ run_wait \/ run_unblock
    \/ sigtstp \/ sigint
    \/ child_setup \/ child_exit \/ child_killed

Spec == Init /\ [][Next]_vars

\* ------------------------------------------------- the parser on any line
ParseInit == pc = "parse" /\ input \in Lines /\ background \in {0, 1} /\ InitRest
ParseNext == main_parse
ParseSpec == ParseInit /\ [][ParseNext]_vars

\* --------------------------------------------- the parser on long lines
\* parse taken one loop iteration at a time, so that lines as long as the
\* line buffer can be followed; `parser` holds its locals: i of the copy
\* loop, the expanded buffer, the position of strtok_r's save pointer and
\* the mode. arg_n is Len(command.args).

\* the slots of command->args, and the size of the line buffer
N_ARGS == 512 + 1
LEN_INPUT == 2048 + 1

\* the comment test, calloc of expanded_input and the loop's int i = 0
parse_begin ==
    /\ pc = "parse"
    /\ parser.at = "idle"
    /\ IF Len(input) >= 1 /\ input[1] = "#"
       THEN /\ command' = create_command
            /\ pc' = "run"
            /\ UNCHANGED parser
       ELSE /\ parser' = [NoParser EXCEPT !.at = "expand", !.i = 1]
            /\ UNCHANGED <<pc, command>>
    /\ UNCHANGED <<input, background, sigtstp_blocked, sigtstp_pending,
                   sigint_shell, status, background_pids, children,
                   child_pid, exit_code, killed, out, banners, n_sigtstp>>

\* one iteration of the copy loop
parse_copy ==
    /\ pc = "parse"
    /\ parser.at = "expand"
    /\ parser.i <= Len(input)
    /\ LET i == parser.i
       IN  IF input[i] = "$" /\ i < Len(input) /\ input[i + 1] = "$"
           THEN parser' = [parser EXCEPT
                             !.expanded_input = @ \o Decimal(ShellPid),
                             !.i = i + 2]
           ELSE parser' = [parser EXCEPT
                             !.expanded_input = Append(@, input[i]),
                             !.i = i + 1]
    /\ UNCHANGED <<pc, input, command, background, sigtstp_blocked,
                   sigtstp_pending, sigint_shell, status, background_pids,
                   children, child_pid, exit_code, killed, out, banners,
                   n_sigtstp>>

\* the copy loop is over: create_command, arg_n = 0, mode = 0 and the test
\* on the second to last character
parse_marker ==
    /\ pc = "parse"
    /\ parser.at = "expand"
    /\ parser.i > Len(input)
    /\ command' = [create_command EXCEPT
                     !.background = IF is_background(parser.expanded_input)
                                    THEN background ELSE 0]
    /\ parser' = [parser EXCEPT
                    !.at = "tokens",
                    !.expanded_input = blank_marker(parser.expanded_input),
                    !.pos = 1,
                    !.mode = 0]
    /\ UNCHANGED <<pc, input, background, sigtstp_blocked, sigtstp_pending,
                   sigint_shell, status, background_pids, children,
                   child_pid, exit_code, killed, out, banners, n_sigtstp>>

\* one strtok_r call and the loop body for its token; without a token the
\* loop ends and parse returns. The body has no test of arg_n.
parse_next_token ==
    /\ pc = "parse"
    /\ parser.at = "tokens"
    /\ LET buffer == parser.expanded_input
           t == SkipDelims(SubSeq(buffer, parser.pos, Len(buffer)))
           n == TokenLen(t)
           c == parse_token([args |-> command.args,
                             input_file |-> command.input_file,
                             output_file |-> command.output_file,
                             background |-> command.background,
                             mode |-> parser.mode],
                            SubSeq(t, 1, n))
       IN  IF t = <<>>
           THEN /\ pc' = "run"
                /\ parser' = NoParser
                /\ UNCHANGED command
           ELSE /\ command' = [args |-> c.args, input_file |-> c.input_file,
                               output_file |-> c.output_file,
                               background |-> c.background]
                /\ parser' = [parser EXCEPT
                                !.pos = Len(buffer) - Len(t) + n + 1,
                                !.mode = c.mode]
                /\ UNCHANGED pc
    /\ UNCHANGED <<input, background, sigtstp_blocked, sigtstp_pending,
                   sigint_shell, status, background_pids, children,
                   child_pid, exit_code, killed, out, banners, n_sigtstp>>

\* the line `a a ... a\n` of k arguments
ArgLine(k) ==
    [i \in 1..(2 * k) |-> IF i % 2 = 1 THEN "a" ELSE IF i = 2 * k THEN "\n" ELSE " "]

\* lines that fgets returns whole and whose arguments all land in a slot of
\* command->args (a store past the last slot is outside this model), and
\* the short lines of the shell
ArgCounts == {N_ARGS - 1, N_ARGS}
ArgLines == {line \in {ArgLine(k) : k \in ArgCounts} : Len(line) < LEN_INPUT}
                \cup ShellLines

ArgsInit == pc = "parse" /\ input \in ArgLines /\ background \in {0, 1} /\ InitRest
ArgsNext == parse_begin \/ parse_copy \/ parse_marker \/ parse_next_token
ArgsSpec == ArgsInit /\ [][ArgsNext]_vars

\* ------------------------------------------- the shell that never stops
\* The main loop on an endless input of background commands and blank
\* lines, with no signals from outside. The kernel gives the pid of a child
\* that was waited for to a later fork, and the lines written to stdout are
\* not recorded, so that the loop can turn for ever in finitely many states.
LiveLines == {<<"a", " ", "&", "\n">>, <<" ", "\n">>}

\* main_reap without the record of the lines written
live_reap ==
    /\ pc = "reap"
    /\ LET r == check_background(background_pids, Terminated)
       IN  /\ background_pids' = r.head
           /\ status' = status_after_sweep(status,
                  [i \in DOMAIN r.reported |-> children[r.reported[i]].wstatus])
           /\ children' = [p \in Pids |->
                            IF p \in ToSet(r.reported)
                            THEN reap(children[p])
                            ELSE children[p]]
    /\ pc' = "read"
    /\ UNCHANGED <<input, command, background, sigtstp_blocked,
                   sigtstp_pending, sigint_shell, child_pid, exit_code,
                   killed, out, banners, n_sigtstp, parser>>

\* fgets returns one of the lines of the endless input
live_read ==
    /\ pc = "read"
    /\ input' \in LiveLines
    /\ pc' = "parse"
    /\ UNCHANGED <<command, background, sigtstp_blocked, sigtstp_pending,
                   sigint_shell, status, background_pids, children,
                   child_pid, exit_code, killed, out, banners, n_sigtstp,
                   parser>>

\* run_fork_background with a pid that is free: never used, or waited for
live_fork_background ==
    /\ pc = "run" /\ IsExternal(command) /\ command.background # 0
    /\ \E p \in Pids :
         /\ children[p].st \in {"none", "reaped"}
         /\ children' = [children EXCEPT ![p] = NewChild]
         /\ background_pids' = insert_pid(background_pids, p)
    /\ Continue
    /\ UNCHANGED <<background, sigtstp_blocked, sigtstp_pending,
                   sigint_shell, status, child_pid, exit_code, killed, out,
                   banners, n_sigtstp, parser>>

\* the steps of the shell process
LiveShell ==
    \/ live_reap \/ live_read \/ main_parse
    \/ run_empty \/ run_fork_fail \/ live_fork_background

LiveNext == LiveShell \/ child_setup \/ child_exit \/ child_killed

\* the shell is a running process and its input never ends: a step of the
\* shell that can be taken is taken; so is the child's setup after fork.
\* Nothing makes a running child terminate.
LiveSpec ==
    /\ Init
    /\ [][LiveNext]_vars
    /\ WF_vars(LiveShell)
    /\ WF_vars(child_setup)

\* ================================================================ claims
\* the pids of the "background pid <pid> is done: ..." lines written so far
ReportedDone == {out[i][2] : i \in {j \in DOMAIN out : out[j][1] = "done"}}

\* a step that forks a child
ForkStep == \E p \in Pids : children[p].st = "none" /\ children'[p].st # "none"

\* the first character of the line is `#`
IsCommentLine(line) == line # <<>> /\ line[1] = "#"

\* C1: while the shell runs, the Background Registry holds exactly the pids
\* of the children forked with background set that the Reaper has not yet
\* reported done, each of them once.
C1_RegistryExact ==
    pc # "exited" =>
        /\ \A i, j \in DOMAIN background_pids :
               i # j => background_pids[i] # background_pids[j]
        /\ ToSet(background_pids) =
               {p \in Forked : children[p].bg # 0 /\ p \notin ReportedDone}

\* one background child was reported done and another is still registered
C1_Witness ==
    /\ pc # "exited"
    /\ background_pids # <<>>
    /\ ReportedDone # {}

\* C2: no toggle of the Foreground-only Flag and no banner occurs between
\* the fork of a foreground child and the reporting of its status.
C2_NoToggleFromForkToReport ==
    [][(pc \in {"forked", "wait"}) =>
           (background' = background /\ banners' = banners)]_vars

\* C3: whenever the Foreground-only Flag is set at the moment a command is
\* forked, the shell waits for the child, does not register its pid and
\* prints no "background pid is" line.
C3_FlagSetRunsForeground ==
    [][(ForkStep /\ background = 0) =>
           (/\ pc' = "forked"
            /\ background_pids' = background_pids
            /\ out' = out)]_vars

\* C4: a sweep reports and removes every registered child that had already
\* terminated when the sweep started.
C4_SweepReapsEveryTerminated ==
    [][(pc = "reap" /\ pc' = "read") =>
           (\A p \in ToSet(background_pids) :
               children[p].st = "zombie" =>
                   (/\ p \notin ToSet(background_pids')
                    /\ \E i \in DOMAIN out' :
                           i > Len(out) /\ out'[i][1] = "done" /\ out'[i][2] = p))]_vars

\* C5: when `exit` is executed every pid in the Background Registry is sent
\* SIGKILL and removed, none of those children is left running, and the
\* shell exits with code 0.
C5_ExitKillsRegistry ==
    [][(pc # "exited" /\ pc' = "exited") =>
           (/\ ToSet(killed') = ToSet(background_pids)
            /\ Len(killed') = Len(background_pids)
            /\ background_pids' = <<>>
            /\ \A p \in ToSet(background_pids) :
                   children'[p].st \notin {"forked", "running"}
            /\ exit_code' = 0)]_vars

\* the shell has exited with two background children outstanding
C5_Witness ==
    /\ pc = "exited"
    /\ exit_code = 0
    /\ Len(killed) >= 2
    /\ \E p \in ToSet(killed) : children[p].wstatus = W_SIGNALED(SIGKILL)

\* C6: Last Status initially formats as "exit value 0" and changes only in
\* the step in which a foreground wait returns.
C6_StatusOnlyByForegroundWait ==
    /\ print_status(status) = <<"exit value", 0>>
    /\ [][(status' # status) => (pc = "wait" /\ pc' = "unblock")]_vars

\* a background child was reported done with a status that differs from the
\* Last Status a foreground wait stored
C6_Witness ==
    /\ status # 0
    /\ \E i \in DOMAIN out :
           out[i][1] = "done" /\ out[i][3] # print_status(status)

\* C7: the shell ignores SIGINT; a background child has SIGINT ignored while
\* it lives; only the foreground child being waited for has the default
\* action, has it once it executes its program, and only it is ended by
\* SIGINT.
C7_SigintOnlyForeground ==
    /\ sigint_shell = "SIG_IGN"
    /\ \A p \in Pids :
        /\ children[p].st \in {"forked", "running"} /\ children[p].bg # 0
               => children[p].sigint = "SIG_IGN"
        /\ children[p].st = "running" /\ children[p].bg = 0
               => children[p].sigint = "SIG_DFL"
        /\ children[p].sigint = "SIG_DFL"
               => children[p].bg = 0 /\ p = child_pid /\ pc \in {"forked", "wait"}
        /\ children[p].st = "zombie" /\ children[p].wstatus = W_SIGNALED(SIGINT)
               => children[p].bg = 0 /\ p = child_pid

\* a SIGINT ended the foreground child and a background child runs on
C7_Witness ==
    \E p, q \in Pids :
        /\ children[p].st = "zombie" /\ children[p].wstatus = W_SIGNALED(SIGINT)
        /\ children[q].st = "running" /\ children[q].bg # 0

\* the tokens of a line: the maximal runs of characters other than space
\* and newline of the expanded line
LineTokens(line) == strtok_all(expand(line, 1))

LastIsAmpersand(tokens) == tokens # <<>> /\ tokens[Len(tokens)] = <<"&">>

HasRedirection(tokens) ==
    \E i \in DOMAIN tokens : tokens[i] \in {<<"<">>, <<">">>}

\* C8: a line whose final token is a bare `&` has that token removed and
\* background set when the Foreground-only Flag is clear; any other line has
\* background false and keeps its `&` characters in its arguments.
C8_TrailingAmpersandToken ==
    pc = "run" /\ ~IsCommentLine(input) =>
        LET tokens == LineTokens(input)
            marked == LastIsAmpersand(tokens)
        IN  /\ command.background = (IF marked /\ background # 0 THEN 1 ELSE 0)
            /\ ~HasRedirection(tokens) =>
                   command.args = (IF marked THEN SubSeq(tokens, 1, Len(tokens) - 1)
                                   ELSE tokens)

RECURSIVE ThreeState(_, _, _)
\* the semantic pass as claimed: the token after `<` or `>` is the file and
\* the mode returns to ARG
ThreeState(c, mode, tokens) ==
    IF tokens = <<>> THEN c
    ELSE LET t == Head(tokens)
         IN  IF t = <<"<">> THEN ThreeState(c, "EXPECT_IN", Tail(tokens))
             ELSE IF t = <<">">> THEN ThreeState(c, "EXPECT_OUT", Tail(tokens))
             ELSE IF mode = "ARG"
                  THEN ThreeState([c EXCEPT !.args = Append(@, t)], "ARG", Tail(tokens))
             ELSE IF mode = "EXPECT_IN"
                  THEN ThreeState([c EXCEPT !.input_file = t], "ARG", Tail(tokens))
             ELSE ThreeState([c EXCEPT !.output_file = t], "ARG", Tail(tokens))

\* C9: the token following `<` (`>`) sets input_file (output_file), the mode
\* returns to ARG and later tokens are appended to argv.
C9_ModeReturnsToArg ==
    pc = "run" /\ ~IsCommentLine(input) =>
        LET c == ThreeState(create_command, "ARG",
                            strtok_all(blank_marker(expand(input, 1))))
        IN  /\ command.args = c.args
            /\ command.input_file = c.input_file
            /\ command.output_file = c.output_file

\* C10: a line whose first non-whitespace character is `#` parses to the
\* empty Command Plan.
C10_CommentAfterLeadingBlanks ==
    pc = "run" /\ SkipDelims(input) # <<>> /\ Head(SkipDelims(input)) = "#" =>
        command = create_command

\* C11: while the shell waits for a foreground child (SIGTSTP blocked, the
\* shell in waitpid), no step changes the Foreground-only Flag or adds a
\* banner of the shell's handler, whatever SIGTSTP signals arrive.
C11_NoToggleDuringWait ==
    [][(pc = "wait") => (background' = background /\ banners' = banners)]_vars

\* a SIGTSTP arrived during a foreground wait and is held pending
C11_Witness ==
    /\ pc = "wait"
    /\ sigtstp_pending
    /\ n_sigtstp > Len(banners)

\* the plan run is given is the `exit` built-in
IsExitPlan == command.args # <<>> /\ command.args[1] = Str_exit

\* C12: the shell stops only in a step of run on a plan whose argv[0] is
\* `exit`; on every other plan run hands control back to the loop (or goes
\* on to wait for its foreground child and then back), and the loop goes
\* from its top to the next prompt.
C12_StopsOnlyOnExit ==
    [][/\ (pc # "exited" /\ pc' = "exited") => (pc = "run" /\ IsExitPlan)
       /\ (pc = "run" /\ ~IsExitPlan /\ pc' # pc) => (pc' \in {"reap", "forked"})
       /\ (pc = "unblock" /\ pc' # pc) => (pc' = "reap")
       /\ (pc = "reap" /\ pc' # pc) => (pc' = "read")]_vars

\* the shell prompts again after a foreground command that failed
C12_Witness ==
    /\ pc = "read"
    /\ status = W_EXITCODE(1)

BannerEnter == <<"banner", "Entering foreground-only mode (& is now ignored)">>
BannerExit == <<"banner", "Exiting foreground-only mode">>

\* C16: the banners the handler wrote alternate, starting with "Entering",
\* and the flag is the one the last banner announces: after an even number
\* of handled SIGTSTP it has its initial value again (background = 1),
\* after an odd number the shell is in foreground-only mode.
C16_TogglesAlternate ==
    /\ \A i \in DOMAIN banners :
           banners[i] = (IF i % 2 = 1 THEN BannerEnter ELSE BannerExit)
    /\ background = (IF Len(banners) % 2 = 0 THEN 1 ELSE 0)

\* two SIGTSTP were handled and the flag is back at its initial value
C16_Witness ==
    /\ banners = <<BannerEnter, BannerExit>>
    /\ background = 1

\* C17: a SIGTSTP that arrived during a foreground wait is pending only
\* while the shell is in the wait or about to unblock; the step that
\* unblocks runs the handler for it (one toggle, one banner), and leaves
\* nothing pending or blocked when run returns to the loop.
C17_DeferredNotLost ==
    [][/\ sigtstp_pending' => (pc' \in {"wait", "unblock"})
       /\ sigtstp_blocked' => (pc' \in {"wait", "unblock"})
       /\ (pc = "unblock" /\ pc' # pc) =>
              (/\ pc' = "reap"
               /\ ~sigtstp_pending' /\ ~sigtstp_blocked'
               /\ IF sigtstp_pending
                  THEN /\ background' # background
                       /\ Len(banners') = Len(banners) + 1
                  ELSE background' = background /\ banners' = banners)]_vars

\* two SIGTSTP arrived during one foreground wait and the one toggle they
\* are merged into has taken place when the loop is back at its top
C17_Witness ==
    /\ pc = "reap"
    /\ n_sigtstp = 2
    /\ Len(banners) = 1
    /\ ~sigtstp_pending

TTY == <<"tty">>

\* C18: a background child that executes its program has stdin and stdout
\* on the plan's file, or on /dev/null where the plan names none, never on
\* the shell's streams; a foreground child that executes its program has
\* exactly the sides its plan names redirected.  (A child whose redirection
\* failed has exited with code 1 and never reaches the running state.)
C18_BackgroundDetached ==
    \A p \in Pids :
        children[p].st = "running" =>
            LET c == children[p]
            IN  IF c.bg # 0
                THEN /\ c.stdin # TTY /\ c.stdout # TTY
                     /\ c.command.input_file # NULL /\ c.stdin = c.command.input_file
                     /\ c.command.output_file # NULL /\ c.stdout = c.command.output_file
                ELSE /\ c.stdin = (IF c.command.input_file = NULL THEN TTY
                                   ELSE c.command.input_file)
                     /\ c.stdout = (IF c.command.output_file = NULL THEN TTY
                                    ELSE c.command.output_file)

\* a background child runs with stdin on /dev/null and stdout on its file,
\* and a foreground child runs with only stdin redirected
C18_Witness ==
    \E p, q \in Pids :
        /\ children[p].st = "running" /\ children[p].bg # 0
        /\ children[p].stdin = DEV_NULL /\ children[p].stdout = <<"a">>
        /\ children[q].st = "running" /\ children[q].bg = 0
        /\ children[q].stdin = <<"a">> /\ children[q].stdout = TTY

RECURSIVE JoinWithSpaces(_)
\* the elements of an argv joined by single spaces
JoinWithSpaces(argv) ==
    IF argv = <<>> THEN <<>>
    ELSE IF Len(argv) = 1 THEN argv[1]
    ELSE argv[1] \o <<" ">> \o JoinWithSpaces(Tail(argv))

HasPidVariable(line) ==
    \E i \in 1..(Len(line) - 1) : line[i] = "$" /\ line[i + 1] = "$"

\* C13: for a line with no `<` or `>` token, no trailing bare `&` and no
\* `$$`, parsing the argv joined by single spaces yields the same argv, no
\* redirections and background = 0.
C13_ReparseStable ==
    (/\ pc = "run"
     /\ ~HasRedirection(LineTokens(input))
     /\ ~LastIsAmpersand(LineTokens(input))
     /\ ~HasPidVariable(input)) =>
        parse(JoinWithSpaces(command.args), background) =
            [args |-> command.args, input_file |-> NULL,
             output_file |-> NULL, background |-> 0]

\* the tokens the semantic pass walks: those of the expanded line after the
\* background marker was blanked
PassTokens(line) == strtok_all(blank_marker(expand(line, 1)))

\* some `op` token is directly followed by a token that is no operator
HasOperand(tokens, op) ==
    \E i \in 1..(Len(tokens) - 1) :
        tokens[i] = op /\ tokens[i + 1] \notin {<<"<">>, <<">">>}

\* C14: every element of argv is a non-empty string other than `<` and `>`,
\* and a redirection field is unset when no operator of its direction is
\* followed by a token.
C14_ArgvWellFormed ==
    pc = "run" =>
        /\ \A i \in DOMAIN command.args :
               command.args[i] \notin {<<>>, <<"<">>, <<">">>}
        /\ ~IsCommentLine(input) =>
               /\ ~HasOperand(PassTokens(input), <<"<">>) => command.input_file = NULL
               /\ ~HasOperand(PassTokens(input), <<">">>) => command.output_file = NULL

\* a line such as `a <`: an argument is stored, the operator comes last and
\* its field stays unset
C14_Witness ==
    /\ pc = "run"
    /\ command.args # <<>>
    /\ PassTokens(input) # <<>>
    /\ PassTokens(input)[Len(PassTokens(input))] = <<"<">>
    /\ command.input_file = NULL

RECURSIVE DollarRun(_)
\* the number of `$` a string starts with
DollarRun(s) == IF s # <<>> /\ Head(s) = "$" THEN 1 + DollarRun(Tail(s)) ELSE 0

RECURSIVE Copies(_, _)
Copies(s, n) == IF n = 0 THEN <<>> ELSE s \o Copies(s, n - 1)

RECURSIVE ExpandByRuns(_)
\* the expansion as claimed: in a maximal run of k `$` each of the k \div 2
\* pairs from the left becomes the pid and an odd last `$` stays; every
\* other character is copied
ExpandByRuns(s) ==
    IF s = <<>> THEN <<>>
    ELSE IF Head(s) # "$" THEN <<Head(s)>> \o ExpandByRuns(Tail(s))
    ELSE LET k == DollarRun(s)
         IN  Copies(Decimal(ShellPid), k \div 2)
                 \o (IF k % 2 = 1 THEN <<"$">> ELSE <<>>)
                 \o ExpandByRuns(SubSeq(s, k + 1, Len(s)))

\* C15: the expanded line is the raw line with every `$$` pair, taken left
\* to right, replaced by the decimal shell pid and every other character,
\* a single `$` included, unchanged; the plan is the one parsed from it.
C15_PidExpansion ==
    (pc = "run" /\ ~IsCommentLine(input)) =>
        /\ expand(input, 1) = ExpandByRuns(input)
        /\ LET tokens == strtok_all(blank_marker(ExpandByRuns(input)))
           IN  \A i \in DOMAIN command.args :
                   \E j \in DOMAIN tokens : command.args[i] = tokens[j]

\* `$$$`: the pid followed by the third `$`
C15_Witness ==
    /\ pc = "run"
    /\ input = <<"$", "$", "$">>
    /\ command.args = << Decimal(ShellPid) \o <<"$">> >>

\* C19: for every line of at most 2048 characters the parsed argv has at
\* most 512 elements.
C19_ArgvWithinCapacity ==
    (pc = "run" /\ Len(input) <= LEN_INPUT - 1) => Len(command.args) <= N_ARGS - 1

\* a sweep step reports child p: waitpid reaped it and its node is gone
SweepReports(p) ==
    /\ pc = "reap"
    /\ p \in ToSet(background_pids)
    /\ p \notin ToSet(background_pids')

\* C20 (safety): a pid leaves the Registry of the running shell only in a
\* sweep, only when its child has terminated, and the child is then waited
\* for, so that it is reported once.
C20_ReportedOnceAfterEnd ==
    [][\A p \in Pids :
          /\ (p \in ToSet(background_pids) /\ p \notin ToSet(background_pids'))
                 => (SweepReports(p) /\ children[p].st = "zombie"
                                     /\ children'[p].st = "reaped")
          /\ (children[p].st = "zombie" /\ children'[p].st = "reaped")
                 => SweepReports(p)]_vars

\* C20 (liveness): while the main loop keeps iterating, every registered
\* background child that has terminated is eventually reported and removed.
C20_EventuallyReported ==
    ([]<>(pc = "reap")) =>
        \A p \in Pids :
            (children[p].st = "zombie" /\ p \in ToSet(background_pids))
                ~> (p \notin ToSet(background_pids))

\* C20: each background child is reported at most once and only after it
\* has terminated, a sweep never removes the pid of a running child, and
\* every background child that terminates is eventually reported and
\* removed, provided the main loop keeps iterating.
C20_SweepSafeAndComplete == C20_ReportedOnceAfterEnd /\ C20_EventuallyReported
====
